---- MODULE Spec2Model ----
(***************************************************************************)
(* State-machine model of PostProcessingManager (the asset gate, the       *)
(* effect registry, the pipeline builder and the facade) together with the *)
(* part of Playground that drives it.  The EffectComposer, the passes and  *)
(* the renderer are library objects: they are modelled by the fields the   *)
(* manager's code reads and writes through them (the pass chain, the       *)
(* renderToScreen flags, the sizes, the dispose calls).                    *)
(* The debug panel is modelled by its bindings on Params and their change   *)
(* callbacks, the effects by the properties those callbacks assign, and     *)
(* FinalEffect by its constructor and setters.                              *)
(***************************************************************************)
EXTENDS Integers, Sequences, FiniteSets, TLC

\* ------------------------------------------------------------------ bounds
\* Number of distinct window sizes the resize handler may observe.
MaxSizes == 2
\* Number of dispose() calls a pass may receive without being initialised again.
MaxDispose == 1
\* Number of runs of setupPostProcessing.
MaxSetups == 2

\* --------------------------------------------------------------- constants
\* A texture slot that holds null.
NULL == "null"
\* A pass reference that is null or undefined (pass ids start at 1).
NoPass == 0
\* The value of _effects[key] for a key the registry does not hold.
UndefinedEffect == [key |-> "undefined", name |-> "undefined", gen |-> 0]
\* Rank of an effect whose name is not a key of the ordering table.
UnlistedRank == 999
\* renderer.setPixelRatio(Math.min(window.devicePixelRatio, 2)) on a HiDPI display.
PixelRatio == 2

AssetKeys == <<"smaa-search", "smaa-area", "grainTexture">>
AssetKeySet == {AssetKeys[i] : i \in 1..Len(AssetKeys)}

\* Keys of _effectEnabled / _effects, in the insertion order of the source.
EffectKeys == <<"smaa", "ssao", "bloom", "vignette", "color", "sepia", "final">>
EffectKeySet == {EffectKeys[i] : i \in 1..Len(EffectKeys)}

\* Effect.name of the instance stored under each registry key (the name the
\* effect class passes to the Effect constructor).
EffectName(key) ==
    CASE key = "smaa"     -> "SMAAEffect"
      [] key = "ssao"     -> "SSAOEffect"
      [] key = "bloom"    -> "BloomEffect"
      [] key = "vignette" -> "VignetteEffect"
      [] key = "color"    -> "BrightnessContrastEffect"
      [] key = "sepia"    -> "SepiaEffect"
      [] key = "final"    -> "FinalEffect"

DEFAULT_POSTPROCESSING_ORDER ==
    [k \in {"SMAA", "SSR", "SSAO", "DoF", "MotionBlur", "ChromaticAberration",
            "Bloom", "GodRays", "Vignette", "ToneMapping", "LUT", "FilmGrain",
            "Pixelation", "Color", "Final"} |->
        CASE k = "SMAA" -> 1 [] k = "SSR" -> 2 [] k = "SSAO" -> 3 [] k = "DoF" -> 4
          [] k = "MotionBlur" -> 5 [] k = "ChromaticAberration" -> 6
          [] k = "Bloom" -> 7 [] k = "GodRays" -> 8 [] k = "Vignette" -> 9
          [] k = "ToneMapping" -> 10 [] k = "LUT" -> 11 [] k = "FilmGrain" -> 12
          [] k = "Pixelation" -> 13 [] k = "Color" -> 14 [] k = "Final" -> 15]


VARIABLES
    assets,         \* _assets: asset key -> texture or null
    loadState,      \* the loader's request per asset: pending / loaded / failed
    composer,       \* _composer: the EffectComposer (chain, autoRenderToScreen, buffer size)
    helpers,        \* _helpers (renderPass, depthDownPass) and _normalPass: pass ids
    effects,        \* _effects: the registry, a sequence of <<key, effect>> entries
    effectsPass,    \* _effectsPass: id of the composite EffectPass or null
    effectEnabled,  \* _effectEnabled: the EnabledMap, a sequence of <<key, flag>> entries
    enabled,        \* enabled: the global flag
    heap,           \* the pass objects the manager or the composer still references
    retired,        \* <<kind, dispose() calls>> of the passes nothing references any more
    rendererSize,   \* the renderer's logical size
    viewport,       \* Playground._viewport
    isWebGL2,       \* renderer.capabilities.isWebGL2
    lastFrame,      \* what the last handler drew (NoFrame unless it was render)
    errorLog,       \* asset keys console.error was called for
    threw,          \* the last handler ended with an uncaught exception
    setupCount,     \* number of runs of setupPostProcessing
    pp,             \* the PostProcessing object (the single-pass variant of the manager)
    Params,         \* the exported Params object the panel is bound to
    instances,      \* the tunable properties of the effect objects of the registry
    finalEffect     \* a FinalEffect object constructed and used on its own

vars == <<assets, loadState, composer, helpers, effects, effectsPass, effectEnabled,
          enabled, heap, retired, rendererSize, viewport, isWebGL2,
          lastFrame, errorLog, threw, setupCount, pp, Params, instances, finalEffect>>

\* ------------------------------------------------- JavaScript object helpers
\* A Record<string, T> is a sequence of <<key, value>> entries in insertion order.
ObjKeys(obj) == {obj[i][1] : i \in 1..Len(obj)}

\* obj[key]: undef when the key is absent.
ObjGet(obj, key, undef) ==
    IF key \in ObjKeys(obj)
    THEN (CHOOSE e \in {obj[i] : i \in 1..Len(obj)} : e[1] = key)[2]
    ELSE undef

\* obj[key] = val: an existing key keeps its position, a new key is appended.
ObjSet(obj, key, val) ==
    IF key \in ObjKeys(obj)
    THEN [i \in 1..Len(obj) |-> IF obj[i][1] = key THEN <<key, val>> ELSE obj[i]]
    ELSE Append(obj, <<key, val>>)

\* Boolean(x) of an asset slot: null is falsy, a texture is truthy.
Truthy(x) == x # NULL

\* --------------------------------------------------------------- asset gate
\* this._assets = { "smaa-search": null, "smaa-area": null, "grainTexture": null }
EmptyAssets == [k \in AssetKeySet |-> NULL]

\* Mutant of AllLoaded: some() in place of every().
AllLoaded_Some(a) == \E k \in AssetKeySet : Truthy(a[k])

\* Object.values(this._assets).every(Boolean)
AllLoaded(a) == \A k \in AssetKeySet : Truthy(a[k])

\* ------------------------------------------------------- renderer / composer
Size(w, h) == [w |-> w, h |-> h]

\* renderer.getDrawingBufferSize(): the logical size times the pixel ratio.
DrawingBufferSize(size) == Size(size.w * PixelRatio, size.h * PixelRatio)

\* A freshly constructed pass: not terminal, no size yet, never disposed.
\* disposed counts the dispose() calls since the pass was last initialised.
NewPass(kind, effs) ==
    [kind |-> kind, effects |-> effs, renderToScreen |-> FALSE, size |-> Size(0, 0),
     disposed |-> 0]

HasUndefinedEffect(p) == \E i \in 1..Len(p.effects) : p.effects[i] = UndefinedEffect

\* The id a new pass object gets: one that names no object of the heap.  (An id
\* names an object only while something references it: see Commit.)
FreshId(M) == CHOOSE i \in 1..(Cardinality(DOMAIN M.heap) + 1) :
                 /\ i \notin DOMAIN M.heap
                 /\ \A j \in 1..(i - 1) : j \in DOMAIN M.heap

\* Allocation of a pass object under FreshId(M).
Alloc(M, p) ==
    [M EXCEPT !.heap = [i \in (DOMAIN M.heap) \cup {FreshId(M)} |->
                            IF i = FreshId(M) THEN p ELSE M.heap[i]]]

\* Mutant of DisposePass: the pass is never released.
DisposePass_Forgotten(M, id) == M

\* pass.dispose()
DisposePass(M, id) == [M EXCEPT !.heap[id].disposed = @ + 1]

SetRenderToScreen(M, id, v) == [M EXCEPT !.heap[id].renderToScreen = v]

Last(s) == s[Len(s)]

\* _composer = null (the field initialiser and _reset()).
NoComposer ==
    [live |-> FALSE, passes |-> <<>>, autoRenderToScreen |-> FALSE, bufferSize |-> Size(0, 0)]

\* new EffectComposer(renderer): empty chain, autoRenderToScreen on.
NewComposer ==
    [live |-> TRUE, passes |-> <<>>, autoRenderToScreen |-> TRUE, bufferSize |-> Size(0, 0)]

\* !this._composer
ComposerIsNull(M) == ~M.composer.live

\* composer.setSize(w, h): resizes the renderer when its size differs, then the
\* buffers and every pass of the chain to the drawing-buffer size.
ComposerSetSize(M, w, h) ==
    LET rs == IF M.rendererSize # Size(w, h) THEN Size(w, h) ELSE M.rendererSize
        eff == DrawingBufferSize(rs)
        inChain == {M.composer.passes[i] : i \in 1..Len(M.composer.passes)}
    IN [M EXCEPT !.rendererSize = rs,
                 !.composer.bufferSize = eff,
                 !.heap = [i \in DOMAIN M.heap |->
                              IF i \in inChain THEN [M.heap[i] EXCEPT !.size = eff]
                              ELSE M.heap[i]]]

\* Mutant of ComposerAddPass: the terminal flag of the previous last pass is
\* never cleared.
ComposerAddPass_KeepsTerminal(M, id) ==
    IF M.threw THEN M
    ELSE IF id = NoPass THEN [M EXCEPT !.threw = TRUE]
    ELSE IF HasUndefinedEffect(M.heap[id]) THEN [M EXCEPT !.threw = TRUE]
    ELSE
      LET M1 == [M EXCEPT !.heap[id].size = DrawingBufferSize(M.rendererSize),
                           !.heap[id].disposed = 0]
          M3 == IF M1.composer.autoRenderToScreen /\ M1.heap[id].renderToScreen
                THEN [M1 EXCEPT !.composer.autoRenderToScreen = FALSE] ELSE M1
          M4 == [M3 EXCEPT !.composer.passes = Append(M.composer.passes, id)]
      IN IF M4.composer.autoRenderToScreen
         THEN SetRenderToScreen(M4, id, TRUE) ELSE M4

\* composer.addPass(pass): the pass is sized and initialised (its resources are
\* created again after a dispose()), the terminal flag moves to the end of the
\* chain while autoRenderToScreen is on.  An undefined pass throws at
\* pass.setRenderer; an EffectPass holding an undefined effect throws in
\* pass.setSize.
ComposerAddPass(M, id) ==
    IF M.threw THEN M
    ELSE IF id = NoPass THEN [M EXCEPT !.threw = TRUE]
    ELSE IF HasUndefinedEffect(M.heap[id]) THEN [M EXCEPT !.threw = TRUE]
    ELSE
      LET ps == M.composer.passes
          M1 == [M EXCEPT !.heap[id].size = DrawingBufferSize(M.rendererSize),
                           !.heap[id].disposed = 0]
          M2 == IF M1.composer.autoRenderToScreen /\ Len(ps) > 0
                THEN SetRenderToScreen(M1, Last(ps), FALSE) ELSE M1
          M3 == IF M2.composer.autoRenderToScreen /\ M2.heap[id].renderToScreen
                THEN [M2 EXCEPT !.composer.autoRenderToScreen = FALSE] ELSE M2
          M4 == [M3 EXCEPT !.composer.passes = Append(ps, id)]
      IN IF M4.composer.autoRenderToScreen
         THEN SetRenderToScreen(M4, id, TRUE) ELSE M4

\* composer.removePass(pass): no effect when the pass is not in the chain.
ComposerRemovePass(M, id) ==
    LET ps == M.composer.passes
        idx == {i \in 1..Len(ps) : ps[i] = id}
    IN IF idx = {} THEN M
       ELSE
         LET index == CHOOSE i \in idx : \A j \in idx : i <= j
             rest == [i \in 1..(Len(ps) - 1) |-> IF i < index THEN ps[i] ELSE ps[i + 1]]
             M1 == [M EXCEPT !.composer.passes = rest]
         IN IF M1.composer.autoRenderToScreen /\ index = Len(ps)
            THEN LET M2 == SetRenderToScreen(M1, id, FALSE)
                 IN IF Len(rest) > 0 THEN SetRenderToScreen(M2, Last(rest), TRUE) ELSE M2
            ELSE M1

\* Mutant of ComposerReset: the passes are disposed but stay in the chain.
ComposerReset_KeepsChain(M) ==
    LET inChain == {M.composer.passes[i] : i \in 1..Len(M.composer.passes)}
    IN [M EXCEPT !.heap = [i \in DOMAIN M.heap |->
                              IF i \in inChain
                              THEN [M.heap[i] EXCEPT !.disposed = @ + 1]
                              ELSE M.heap[i]],
                 !.composer.autoRenderToScreen = TRUE]

\* composer.reset(): dispose() (every pass of the chain is disposed, the chain is
\* emptied) and autoRenderToScreen = true.
ComposerReset(M) ==
    LET inChain == {M.composer.passes[i] : i \in 1..Len(M.composer.passes)}
    IN [M EXCEPT !.heap = [i \in DOMAIN M.heap |->
                              IF i \in inChain
                              THEN [M.heap[i] EXCEPT !.disposed = @ + 1]
                              ELSE M.heap[i]],
                 !.composer.passes = <<>>,
                 !.composer.autoRenderToScreen = TRUE]

\* ------------------------------------------------------ ordering and builder
\* const order = { ...DEFAULT_POSTPROCESSING_ORDER, ...customOrder }
MergeOrder(base, customOrder) ==
    [k \in (DOMAIN base) \cup (DOMAIN customOrder) |->
        IF k \in DOMAIN customOrder THEN customOrder[k] ELSE base[k]]

\* order[a.name] ?? 999
Rank(order, eff) == IF eff.name \in DOMAIN order THEN order[eff.name] ELSE UnlistedRank

RemoveAt(s, i) == [j \in 1..(Len(s) - 1) |-> IF j < i THEN s[j] ELSE s[j + 1]]

\* Mutant of SortEntries: entries whose effect has no rank in the table are lost.
SortEntries_DropUnlisted(entries, order) ==
    SelectSeq(entries, LAMBDA e : e[2].name \in DOMAIN order)

\* Mutant of SortEntries: the registry is filled with new effect instances.
SortEntries_Recreated(entries, order) ==
    [i \in 1..Len(entries) |->
        <<entries[i][1], [entries[i][2] EXCEPT !.gen = @ + 1]>>]

\* Object.entries(this._effects).sort((a, b) => orderA - orderB): Array.sort is
\* stable, so the first entry of least rank is taken first.
RECURSIVE SortEntries(_, _)
SortEntries(entries, order) ==
    IF entries = <<>> THEN <<>>
    ELSE LET least == CHOOSE i \in 1..Len(entries) :
                        /\ \A j \in 1..Len(entries) :
                              Rank(order, entries[i][2]) <= Rank(order, entries[j][2])
                        /\ \A j \in 1..(i - 1) :
                              Rank(order, entries[j][2]) > Rank(order, entries[i][2])
         IN <<entries[least]>> \o SortEntries(RemoveAt(entries, least), order)

\* Mutant of ActiveEffects: the filter on the flag is dropped.
ActiveEffects_Unfiltered(enabledMap, registry) ==
    [i \in 1..Len(enabledMap) |-> ObjGet(registry, enabledMap[i][1], UndefinedEffect)]

\* Mutant of ActiveEffects: the enabled effects are taken in registry order.
ActiveEffects_RegistryOrder(enabledMap, registry) ==
    LET on == SelectSeq(registry, LAMBDA e : ObjGet(enabledMap, e[1], FALSE))
    IN [i \in 1..Len(on) |-> on[i][2]]

\* Object.entries(this._effectEnabled).filter(([_, enabled]) => enabled)
\*       .map(([key]) => this._effects[key])
ActiveEffects(enabledMap, registry) ==
    LET on == SelectSeq(enabledMap, LAMBDA e : e[2])
    IN [i \in 1..Len(on) |-> ObjGet(registry, on[i][1], UndefinedEffect)]

\* new EffectPass(camera, ...effs) throws when an effect is undefined (the
\* constructor registers a listener on every effect it is given).
EffectPassCtorThrows(effs) == \E i \in 1..Len(effs) : effs[i] = UndefinedEffect

\* _buildPostProcessingPipeline(customOrder)
BuildPostProcessingPipeline(M, customOrder) ==
    IF ComposerIsNull(M) THEN M
    ELSE
      LET order == MergeOrder(DEFAULT_POSTPROCESSING_ORDER, customOrder)
          M1 == [M EXCEPT !.effects = SortEntries(M.effects, order)]
          M2 == IF M1.effectsPass # NoPass
                THEN DisposePass(ComposerRemovePass(M1, M1.effectsPass), M1.effectsPass)
                ELSE M1
          activeEffects == ActiveEffects(M2.effectEnabled, M2.effects)
      IN IF EffectPassCtorThrows(activeEffects) THEN [M2 EXCEPT !.threw = TRUE]
         ELSE
           LET id == FreshId(M2)
               M3 == [Alloc(M2, NewPass("effect", activeEffects)) EXCEPT !.effectsPass = id]
               M4 == SetRenderToScreen(M3, id, TRUE)
               M5 == ComposerReset(M4)
               M6 == ComposerAddPass(M5, M5.helpers.renderPass)
               M7 == ComposerAddPass(M6, M6.helpers.normalPass)
               M8 == IF M7.helpers.depthDownPass # NoPass /\ ~M7.threw
                     THEN ComposerAddPass(M7, M7.helpers.depthDownPass) ELSE M7
           IN ComposerAddPass(M8, M8.effectsPass)

\* ------------------------------------------------------------ one-time setup
\* Mutant of SetupBasics: the depth pass is created whatever the renderer.
SetupBasics_AlwaysDepth(M, webgl2) ==
    LET M1 == [Alloc(M, NewPass("render", <<>>)) EXCEPT !.helpers.renderPass = FreshId(M)]
        M2 == [Alloc(M1, NewPass("normal", <<>>)) EXCEPT !.helpers.normalPass = FreshId(M1)]
    IN [Alloc(M2, NewPass("depth", <<>>)) EXCEPT !.helpers.depthDownPass = FreshId(M2)]

\* setupBasics(): the helper passes.
SetupBasics(M, webgl2) ==
    LET M1 == [Alloc(M, NewPass("render", <<>>)) EXCEPT !.helpers.renderPass = FreshId(M)]
        M2 == [Alloc(M1, NewPass("normal", <<>>)) EXCEPT !.helpers.normalPass = FreshId(M1)]
    IN IF webgl2
       THEN [Alloc(M2, NewPass("depth", <<>>)) EXCEPT !.helpers.depthDownPass = FreshId(M2)]
       ELSE M2

\* this._effects.<key> = new <Effect>(...) for the seven keys, in source order.
RECURSIVE CreateEffects(_, _, _)
CreateEffects(registry, keys, gen) ==
    IF keys = <<>> THEN registry
    ELSE CreateEffects(
            ObjSet(registry, Head(keys),
                   [key |-> Head(keys), name |-> EffectName(Head(keys)), gen |-> gen]),
            Tail(keys), gen)

\* Mutant of EnableAll: every registry key is switched off.
RECURSIVE EnableAll_DisablesAll(_, _)
EnableAll_DisablesAll(enabledMap, registry) ==
    IF registry = <<>> THEN enabledMap
    ELSE EnableAll_DisablesAll(ObjSet(enabledMap, Head(registry)[1], FALSE), Tail(registry))

\* Mutant of EnableAll: the flags keep the values the earlier calls gave them.
EnableAll_KeepsFlags(enabledMap, registry) == enabledMap

\* Object.keys(this._effects).forEach(key => this._effectEnabled[key] = true)
RECURSIVE EnableAll(_, _)
EnableAll(enabledMap, registry) ==
    IF registry = <<>> THEN enabledMap
    ELSE EnableAll(ObjSet(enabledMap, Head(registry)[1], TRUE), Tail(registry))

\* ------------------------------------------------------- tunable parameters
\* Numbers are kept in thousandths (0.43 is 430).  A colour channel is kept in
\* units of 1/255000, so that the 8-bit colours are the multiples of 1000.

\* export const Params = { ... }
InitialParams ==
    [threshold |-> 430, strength |-> 1000, radius |-> 500,
     ssaoIntensity |-> 1330, ssaoRadius |-> 100, ssaoBias |-> 25, ssaoOpacity |-> 800,
     noise |-> 38, grainScale |-> 6000,
     vignetteCenter |-> [x |-> 500, y |-> 500],
     vignetteRadius |-> 300, vignetteStrength |-> 150, vignettePower |-> 800,
     vignetteColor |-> [r |-> 15300, g |-> 17850, b |-> 25500],
     finalOpacity |-> 1000, finalBlend |-> "ADD",
     brightness |-> 0, contrast |-> 0,
     sepiaIntensity |-> 430, sepiaBlend |-> "ADD"]

\* The members of the BlendFunction enum the code names.
BlendFunction ==
    [NORMAL |-> "BlendFunction.NORMAL", SCREEN |-> "BlendFunction.SCREEN",
     ADD |-> "BlendFunction.ADD", MULTIPLY |-> "BlendFunction.MULTIPLY",
     OVERLAY |-> "BlendFunction.OVERLAY", SOFT_LIGHT |-> "BlendFunction.SOFT_LIGHT"]

\* opts.<k> ?? d
Opt(opts, k, d) == IF k \in DOMAIN opts THEN opts[k] ELSE d

\* new FinalEffect(opts): the blend mode (its opacity starts at 1) and the
\* uniforms the class has accessors for.
FinalEffect(opts) ==
    [blendFunction |-> Opt(opts, "blendFunction", BlendFunction.SCREEN),
     opacity |-> 1000,
     uGrainScale |-> Opt(opts, "grainScale", 6000),
     uNoiseStrength |-> Opt(opts, "noiseStrength", Opt(opts, "noise", 180)),
     uNoise |-> Opt(opts, "noiseStrength", Opt(opts, "noise", 180)),
     uVignetteCenter |-> Opt(opts, "vignetteCenter", [x |-> 500, y |-> 500]),
     uVignetteRadius |-> Opt(opts, "vignetteRadius", 300),
     uVignetteStrength |-> Opt(opts, "vignetteStrength", 0),
     uVignettePower |-> Opt(opts, "vignettePower", 800),
     uVignetteColor |-> Opt(opts, "vignetteColor",
                            [r |-> 15300, g |-> 17850, b |-> 25500])]

\* new FinalEffect({ grain }): no look option is given.
DefaultOptions == [grain |-> "texture"]

\* Mutant of SetNoise: only the uniform the getter reads is written.
SetNoise_OneUniform(f, v) == [f EXCEPT !.uNoiseStrength = v]

\* set noise(v)
SetNoise(f, v) == [f EXCEPT !.uNoiseStrength = v, !.uNoise = v]

\* set grainScale(v)
SetGrainScale(f, v) == [f EXCEPT !.uGrainScale = v]

\* vignetteCenter.set(x, y) on the vector the getter returns
SetVignetteCenter(f, x, y) == [f EXCEPT !.uVignetteCenter = [x |-> x, y |-> y]]

\* set vignetteRadius(v)
SetVignetteRadius(f, v) == [f EXCEPT !.uVignetteRadius = v]

\* set vignetteStrength(v)
SetVignetteStrength(f, v) == [f EXCEPT !.uVignetteStrength = v]

\* set vignettePower(v)
SetVignettePower(f, v) == [f EXCEPT !.uVignettePower = v]

\* The 8-bit code of a channel: Math.round(clamp(c * 255, 0, 255)).
ChannelByte(c) ==
    LET b == (c + 500) \div 1000 IN IF b < 0 THEN 0 ELSE IF b > 255 THEN 255 ELSE b

\* new Color(r, g, b).getHex()
GetHex(c) == ChannelByte(c.r) * 65536 + ChannelByte(c.g) * 256 + ChannelByte(c.b)

\* set vignetteColorHex(hex): new Color(hex), then value.set(c.r, c.g, c.b)
SetVignetteColorHex(f, hex) ==
    [f EXCEPT !.uVignetteColor = [r |-> ((hex \div 65536) % 256) * 1000,
                                  g |-> ((hex \div 256) % 256) * 1000,
                                  b |-> (hex % 256) * 1000]]

\* The switch of _setupEffects on Params.finalBlend.
SetupBlend(label) ==
    CASE label = "NORMAL" -> BlendFunction.NORMAL
      [] label = "SCREEN" -> BlendFunction.SCREEN
      [] label = "ADD" -> BlendFunction.ADD
      [] label = "MULTIPLY" -> BlendFunction.MULTIPLY
      [] label = "OVERLAY" -> BlendFunction.OVERLAY
      [] label = "SOFT_LIGHT" -> BlendFunction.SOFT_LIGHT
      [] OTHER -> BlendFunction.SCREEN

\* The effects that have a tunable property.
TunableEffects == {"ssao", "bloom", "sepia", "final"}

\* this._effects[key] of a key the registry does not hold yet.
UndefinedInstance == [undefined |-> TRUE]

NoInstances == [k \in TunableEffects |-> UndefinedInstance]

\* The effect constructors of _setupEffects, as far as they read Params (P).
CreateInstances(P) ==
    [ssao  |-> [radius |-> P.ssaoRadius, intensity |-> P.ssaoIntensity,
                bias |-> P.ssaoBias, opacity |-> P.ssaoOpacity],
     bloom |-> [threshold |-> P.threshold, resolutionScale |-> P.radius,
                intensity |-> P.strength],
     sepia |-> [intensity |-> P.sepiaIntensity],
     final |-> FinalEffect(
                  [grain |-> "texture",
                   noise |-> P.noise,
                   grainScale |-> P.grainScale,
                   vignetteCenter |-> [x |-> P.vignetteCenter.x, y |-> P.vignetteCenter.y],
                   vignetteRadius |-> P.vignetteRadius,
                   vignetteStrength |-> P.vignetteStrength,
                   vignettePower |-> P.vignettePower,
                   vignetteColor |-> [r |-> P.vignetteColor.r, g |-> P.vignetteColor.g,
                                      b |-> P.vignetteColor.b],
                   blendFunction |-> SetupBlend(P.finalBlend)])]

\* _setupEffects()
SetupEffects(M, gen) ==
    IF ComposerIsNull(M) THEN M
    ELSE LET M1 == [M EXCEPT !.effects = CreateEffects(M.effects, EffectKeys, gen),
                             !.instances = CreateInstances(Params)]
             M2 == [M1 EXCEPT !.effectEnabled = EnableAll(M1.effectEnabled, M1.effects)]
         IN BuildPostProcessingPipeline(M2, <<>>)

\* setupPostProcessing()
SetupPostProcessing(M, webgl2, gen) ==
    IF ComposerIsNull(M) THEN M
    ELSE SetupEffects(SetupBasics(M, webgl2), gen)

\* ------------------------------------------------------------ state plumbing
\* The manager's fields (and the renderer size) as one record, at handler entry.
Mgr ==
    [composer |-> composer, helpers |-> helpers, effects |-> effects,
     effectsPass |-> effectsPass, effectEnabled |-> effectEnabled, heap |-> heap,
     rendererSize |-> rendererSize, threw |-> FALSE, instances |-> instances]

\* Passes still referenced by a field of the manager or by the composer's chain.
LiveIds(M) ==
    ({M.helpers.renderPass, M.helpers.normalPass, M.helpers.depthDownPass, M.effectsPass}
       \cup {M.composer.passes[i] : i \in 1..Len(M.composer.passes)}) \ {NoPass}

\* The state a handler leaves behind.  A pass nothing references any more is
\* garbage: it leaves the heap and only its kind and dispose() count are kept.
Commit(M) ==
    /\ composer' = M.composer
    /\ helpers' = M.helpers
    /\ effects' = M.effects
    /\ effectsPass' = M.effectsPass
    /\ effectEnabled' = M.effectEnabled
    /\ heap' = [i \in LiveIds(M) |-> M.heap[i]]
    /\ retired' = retired \cup {<<M.heap[i].kind, M.heap[i].disposed>> :
                                  i \in (DOMAIN M.heap) \ LiveIds(M)}
    /\ rendererSize' = M.rendererSize
    /\ threw' = M.threw
    /\ instances' = M.instances

NoFrame == [composer |-> FALSE, direct |-> FALSE, passes |-> <<>>]

\* private _effectEnabled = { smaa: true, ..., final: true }
InitialEffectEnabled == [i \in 1..Len(EffectKeys) |-> <<EffectKeys[i], TRUE>>]

NoHelpers == [renderPass |-> NoPass, normalPass |-> NoPass, depthDownPass |-> NoPass]

\* The constructor: _reset(), _init() (composer created and sized), and
\* _loadPostProcessingAssets() (three requests issued, slots null).
Constructed(w, h) ==
    ComposerSetSize(
        [composer |-> NewComposer, helpers |-> NoHelpers, effects |-> <<>>,
         effectsPass |-> NoPass, effectEnabled |-> InitialEffectEnabled,
         heap |-> <<>>,
         rendererSize |-> Size(w, h), threw |-> FALSE, instances |-> NoInstances],
        w, h)

\* ------------------------------------------------- the PostProcessing class
\* Keys of PostProcessing._effectEnabled.
PPEffectKeySet == {"smaa", "ssao", "bloom", "final"}

\* The effects _setup hands to its single EffectPass, in argument order.
PPEffectKeys == <<"smaa", "ssao", "bloom", "vignette", "color", "final">>

\* The PostProcessing constructor: fields at their initialisers, the composer
\* created and sized, three requests issued with every slot null.
PPConstructed(w, h) ==
    ComposerSetSize(
        [composer |-> NewComposer, heap |-> <<>>, rendererSize |-> Size(w, h),
         threw |-> FALSE,
         renderPass |-> NoPass, normalPass |-> NoPass, depthDownPass |-> NoPass,
         effectsPass |-> NoPass,
         enabled |-> TRUE,
         effectEnabled |-> [k \in PPEffectKeySet |-> TRUE],
         assets |-> EmptyAssets,
         loadState |-> [k \in AssetKeySet |-> "pending"],
         setups |-> 0,
         lastFrame |-> NoFrame],
        w, h)

\* Mutant of PPSetEffectEnabledBody: the installed pass drops the effects whose
\* flag is off.
PPSetEffectEnabledBody_Filters(P, effect, v) ==
    LET Q == [P EXCEPT !.effectEnabled[effect] = v] IN
      IF Q.effectsPass = NoPass THEN Q
      ELSE [Q EXCEPT !.heap[Q.effectsPass].effects =
                        SelectSeq(@, LAMBDA x : x.key \notin PPEffectKeySet
                                                \/ Q.effectEnabled[x.key])]

\* PostProcessing.setEffectEnabled(effect, enabled): the flag is recorded.
PPSetEffectEnabledBody(P, effect, v) == [P EXCEPT !.effectEnabled[effect] = v]

\* this.setEffectEnabled(key, this._effectEnabled[key]) for each key of keys, in
\* order: every flag is written with the value it holds.
RECURSIVE PPInitialStates(_, _)
PPInitialStates(P, keys) ==
    IF keys = <<>> THEN P
    ELSE PPInitialStates(
            PPSetEffectEnabledBody(P, Head(keys), P.effectEnabled[Head(keys)]),
            Tail(keys))

\* PostProcessing._setup(scene, camera, assets)
PPSetup(P, webgl2) ==
    LET P1 == [Alloc(P, NewPass("render", <<>>)) EXCEPT !.renderPass = FreshId(P)]
        P2 == [Alloc(P1, NewPass("normal", <<>>)) EXCEPT !.normalPass = FreshId(P1)]
        P3 == IF webgl2
              THEN [Alloc(P2, NewPass("depth", <<>>)) EXCEPT !.depthDownPass = FreshId(P2)]
              ELSE P2
        effs == [i \in 1..Len(PPEffectKeys) |->
                    [key |-> PPEffectKeys[i], name |-> EffectName(PPEffectKeys[i]),
                     gen |-> P.setups + 1]]
        P4 == [Alloc(P3, NewPass("effect", effs)) EXCEPT !.effectsPass = FreshId(P3)]
        P5 == SetRenderToScreen(P4, P4.effectsPass, TRUE)
        P6 == ComposerAddPass(P5, P5.renderPass)
        P7 == ComposerAddPass(P6, P6.normalPass)
        P8 == IF P7.depthDownPass # NoPass THEN ComposerAddPass(P7, P7.depthDownPass) ELSE P7
        P9 == ComposerAddPass(P8, P8.effectsPass)
    IN [PPInitialStates(P9, <<"smaa", "ssao", "bloom", "final">>) EXCEPT !.setups = @ + 1]

\* Mutant of PPRenderFrame: the composer is called whatever the switch.
PPRenderFrame_AlwaysComposer(P) ==
    [composer |-> TRUE, direct |-> ~P.enabled, passes |-> P.composer.passes]

\* PostProcessing.render(): a direct draw when disabled, the composer otherwise.
PPRenderFrame(P) ==
    IF ~P.enabled THEN [composer |-> FALSE, direct |-> TRUE, passes |-> <<>>]
    ELSE IF ComposerIsNull(P) THEN NoFrame
    ELSE [composer |-> TRUE, direct |-> FALSE, passes |-> P.composer.passes]

\* The window sizes (innerWidth, innerHeight) the page may have.
WindowSizes == {Size(i + 1, i) : i \in 1..MaxSizes}

\* window.innerWidth / innerHeight when the page is opened.
InitialViewport == Size(2, 1)

\* The page once Playground's constructor has returned.
InitProgram ==
      LET M == Constructed(InitialViewport.w, InitialViewport.h) IN
        /\ viewport = InitialViewport
        /\ composer = M.composer
        /\ helpers = M.helpers
        /\ effects = M.effects
        /\ effectsPass = M.effectsPass
        /\ effectEnabled = M.effectEnabled
        /\ heap = M.heap
        /\ retired = {}
        /\ rendererSize = M.rendererSize
        /\ threw = FALSE
        /\ assets = EmptyAssets
        /\ loadState = [k \in AssetKeySet |-> "pending"]
        /\ enabled = TRUE
        /\ isWebGL2 \in BOOLEAN
        /\ lastFrame = NoFrame
        /\ errorLog = {}
        /\ setupCount = 0
        /\ pp = PPConstructed(InitialViewport.w, InitialViewport.h)
        /\ Params = InitialParams
        /\ instances = M.instances

Init ==
    /\ InitProgram
    /\ finalEffect = FinalEffect(DefaultOptions)

\* -------------------------------------------------------------------- actions
\* No pass the handler may dispose has reached the bound on dispose() calls.
DisposeBudget == \A i \in DOMAIN heap : heap[i].disposed < MaxDispose

\* Mutant of OnLoadBody: the callback runs setup only when its own asset is the
\* grain texture.
OnLoadBody_LastOnly(k) ==
    LET a == [assets EXCEPT ![k] = "texture"] IN
      /\ assets' = a
      /\ IF AllLoaded(a) /\ k = "grainTexture"
         THEN /\ setupCount < MaxSetups
              /\ Commit(SetupPostProcessing(Mgr, isWebGL2, setupCount + 1))
              /\ setupCount' = setupCount + 1
         ELSE /\ Commit(Mgr)
              /\ setupCount' = setupCount
      /\ lastFrame' = NoFrame
      /\ UNCHANGED <<pp, Params, finalEffect, enabled, viewport, isWebGL2, errorLog>>

\* The success callback of loader.load for asset k.
OnLoadBody(k) ==
    LET a == [assets EXCEPT ![k] = "texture"] IN
      /\ assets' = a
      /\ IF AllLoaded(a)
         THEN /\ setupCount < MaxSetups
              /\ Commit(SetupPostProcessing(Mgr, isWebGL2, setupCount + 1))
              /\ setupCount' = setupCount + 1
         ELSE /\ Commit(Mgr)
              /\ setupCount' = setupCount
      /\ lastFrame' = NoFrame
      /\ UNCHANGED <<pp, Params, finalEffect, enabled, viewport, isWebGL2, errorLog>>

\* The loader resolves a pending request: the success callback runs once.
OnLoad(k) ==
    /\ loadState[k] = "pending"
    /\ loadState' = [loadState EXCEPT ![k] = "loaded"]
    /\ OnLoadBody(k)

\* Mutant of OnError: the failure is logged and the request is issued again.
OnError_Retry(k) ==
    /\ loadState[k] = "pending"
    /\ loadState' = loadState
    /\ errorLog' = errorLog \cup {k}
    /\ threw' = FALSE
    /\ lastFrame' = NoFrame
    /\ UNCHANGED <<pp, Params, finalEffect, assets, composer, helpers, effects, instances, effectsPass, effectEnabled,
                   enabled, heap, retired, rendererSize, viewport,
                   isWebGL2, setupCount>>

\* The loader fails a pending request: the error callback logs.
OnError(k) ==
    /\ loadState[k] = "pending"
    /\ loadState' = [loadState EXCEPT ![k] = "failed"]
    /\ errorLog' = errorLog \cup {k}
    /\ threw' = FALSE
    /\ lastFrame' = NoFrame
    /\ UNCHANGED <<pp, Params, finalEffect, assets, composer, helpers, effects, instances, effectsPass, effectEnabled,
                   enabled, heap, retired, rendererSize, viewport,
                   isWebGL2, setupCount>>

\* Mutant of SetEnabled: the switch also rebuilds the pipeline.
SetEnabled_Rebuilds(v) ==
    /\ enabled' = v
    /\ Commit(BuildPostProcessingPipeline(Mgr, <<>>))
    /\ lastFrame' = NoFrame
    /\ UNCHANGED <<pp, Params, finalEffect, assets, loadState, viewport, isWebGL2, errorLog, setupCount>>

\* setEnabled(v)
SetEnabled(v) ==
    /\ enabled' = v
    /\ threw' = FALSE
    /\ lastFrame' = NoFrame
    /\ UNCHANGED <<pp, Params, finalEffect, assets, loadState, composer, helpers, effects, instances, effectsPass,
                   effectEnabled, heap, retired, rendererSize, viewport,
                   isWebGL2, errorLog, setupCount>>

\* setEffectEnabled(effect, v)
SetEffectEnabled(effect, v) ==
    /\ DisposeBudget
    /\ Commit(BuildPostProcessingPipeline(
                [Mgr EXCEPT !.effectEnabled = ObjSet(effectEnabled, effect, v)], <<>>))
    /\ lastFrame' = NoFrame
    /\ UNCHANGED <<pp, Params, finalEffect, assets, loadState, enabled, viewport, isWebGL2, errorLog, setupCount>>

\* What PostProcessingManager.render(t) draws.
RenderFrame(M, on) ==
    IF ComposerIsNull(M) THEN NoFrame
    ELSE [composer |-> TRUE, direct |-> FALSE, passes |-> M.composer.passes]

\* Playground.render(time) -> PostProcessingManager.render(t)
Render ==
    /\ lastFrame' = RenderFrame(Mgr, enabled)
    /\ threw' = FALSE
    /\ UNCHANGED <<pp, Params, finalEffect, assets, loadState, composer, helpers, effects, instances, effectsPass,
                   effectEnabled, enabled, heap, retired, rendererSize,
                   viewport, isWebGL2, errorLog, setupCount>>

\* Mutant of ManagerResize: nothing is done while the chain is empty.
ManagerResize_SkipsEmptyChain(M, w, h) ==
    IF ComposerIsNull(M) \/ M.composer.passes = <<>> THEN M ELSE ComposerSetSize(M, w, h)

\* PostProcessingManager.resize(w, h): this._composer?.setSize(width, height)
ManagerResize(M, w, h) == IF ComposerIsNull(M) THEN M ELSE ComposerSetSize(M, w, h)

\* The body of Playground.resize() on the manager and the renderer:
\* this._postprocessing?.resize(w, h), then this._renderer.setSize(w, h).
ResizeResult(M, w, h) == [ManagerResize(M, w, h) EXCEPT !.rendererSize = Size(w, h)]

\* Playground.resize(): the viewport is read from the window.
Resize(w, h) ==
    /\ Size(w, h) \in WindowSizes
    /\ viewport' = Size(w, h)
    /\ Commit(ResizeResult(Mgr, w, h))
    /\ lastFrame' = NoFrame
    /\ UNCHANGED <<pp, Params, finalEffect, assets, loadState, enabled, isWebGL2, errorLog, setupCount>>

\* The asset callbacks, the panel's effect switches and the frame loop.
Next ==
    \/ \E k \in AssetKeySet : OnLoad(k)
    \/ \E k \in AssetKeySet : OnError(k)
    \/ \E e \in EffectKeySet, v \in BOOLEAN : SetEffectEnabled(e, v)
    \/ Render

Spec == Init /\ [][Next]_vars

\* The switches operated in the scenarios that exercise the rest of the facade.
ToggledEffects == {"smaa", "final"}

\* The whole facade: the asset callbacks, render, resize, setEnabled and
\* setEffectEnabled (on the switches of ToggledEffects).
NextFacade ==
    \/ \E k \in AssetKeySet : OnLoad(k)
    \/ \E k \in AssetKeySet : OnError(k)
    \/ \E e \in ToggledEffects, v \in BOOLEAN : SetEffectEnabled(e, v)
    \/ \E v \in BOOLEAN : SetEnabled(v)
    \/ Render
    \/ \E sz \in WindowSizes : Resize(sz.w, sz.h)

SpecFacade == Init /\ [][NextFacade]_vars

\* ------------------------------------------------------------------ notions
\* The manager's state: Ready once the one-time setup has built the helper
\* passes and the registry, AwaitingAssets from construction until then.
ManagerState ==
    IF effects # <<>> /\ helpers.renderPass # NoPass THEN "Ready" ELSE "AwaitingAssets"

AssetsAllPresent == \A k \in AssetKeySet : assets[k] # NULL

ChainIds == {composer.passes[i] : i \in 1..Len(composer.passes)}

\* Positions of the chain that hold a composite EffectPass.
CompositePositions == {i \in 1..Len(composer.passes) : heap[composer.passes[i]].kind = "effect"}

\* The registry effects whose key is true in the EnabledMap.
EnabledRegistryEffects ==
    {effects[i][2] : i \in {j \in 1..Len(effects) :
                               \E m \in 1..Len(effectEnabled) :
                                  effectEnabled[m] = <<effects[j][1], TRUE>>}}

EffectSet(id) == {heap[id].effects[i] : i \in 1..Len(heap[id].effects)}

ToggleStep == \E e \in EffectKeySet, v \in BOOLEAN : SetEffectEnabled(e, v)

\* --------------------------------------------------------------------- C1
\* C1: whatever the order in which the three loads resolve (each once),
\* setupPostProcessing has run exactly once when all three slots are filled,
\* and has not run (no helper, no registry, empty chain) while a slot is null.
C1_GateFiresOnce ==
    /\ setupCount <= 1
    /\ AssetsAllPresent => setupCount = 1 /\ ManagerState = "Ready"
    /\ ~AssetsAllPresent =>
          setupCount = 0 /\ effects = <<>> /\ helpers = NoHelpers /\ composer.passes = <<>>

C1_Witness == setupCount = 1 /\ \A k \in AssetKeySet : loadState[k] = "loaded"

\* --------------------------------------------------------------------- C2
\* C2: in Ready the chain holds exactly one composite EffectPass, it is the one
\* _effectsPass names, and its effects are the registry effects enabled in the
\* EnabledMap; a render call draws the chain as it then stands.
C2_Composition ==
    /\ ManagerState = "Ready" =>
          /\ Cardinality(CompositePositions) = 1
          /\ effectsPass \in ChainIds
          /\ heap[effectsPass].kind = "effect"
          /\ EffectSet(effectsPass) = EnabledRegistryEffects
          /\ Len(heap[effectsPass].effects) = Cardinality(EnabledRegistryEffects)
    /\ lastFrame # NoFrame =>
          /\ lastFrame.composer
          /\ lastFrame.passes = composer.passes

C2_Witness ==
    /\ ManagerState = "Ready"
    /\ \E m \in 1..Len(effectEnabled) : ~effectEnabled[m][2]
    /\ \E m \in 1..Len(effectEnabled) : effectEnabled[m][2]
    /\ lastFrame.composer
    /\ effectsPass \in {lastFrame.passes[i] : i \in 1..Len(lastFrame.passes)}

\* --------------------------------------------------------------------- C5
\* C5: a setEffectEnabled call made while AwaitingAssets is a no-op on the
\* pipeline: no pass is constructed, the chain is unchanged, nothing throws.
C5_EarlyRebuildIsNoOp ==
    [][(ManagerState = "AwaitingAssets" /\ ToggleStep) =>
          (~threw' /\ effectsPass' = effectsPass /\ composer' = composer /\ heap' = heap)]_vars

\* --------------------------------------------------------------------- C7
\* C7: an asset whose load failed was logged, its slot is null, its request is
\* not pending again, setup has not run and the manager is AwaitingAssets.
C7_FailureStallsGate ==
    \A k \in errorLog :
        /\ assets[k] = NULL
        /\ loadState[k] = "failed"
        /\ setupCount = 0
        /\ ManagerState = "AwaitingAssets"

C7_Witness ==
    \E k \in errorLog : \A j \in AssetKeySet \ {k} : loadState[j] = "loaded"

\* ----------------------------------------------------- further specifications
\* Names setEffectEnabled accepts (its parameter type is string) that are not
\* keys of the registry.
InvalidNames == {"bogus"}

\* The pipeline scenario with a caller that also passes unregistered names.
NextInvalidName ==
    \/ \E k \in AssetKeySet : OnLoad(k)
    \/ \E e \in ToggledEffects \cup InvalidNames, v \in BOOLEAN : SetEffectEnabled(e, v)
    \/ Render

SpecInvalidName == Init /\ [][NextInvalidName]_vars

\* The success callback of a request that has already resolved is invoked again.
ReResolve(k) ==
    /\ loadState[k] = "loaded"
    /\ loadState' = loadState
    /\ OnLoadBody(k)

\* The pipeline scenario with a loader that may call a success callback again.
NextReResolve ==
    \/ \E k \in AssetKeySet : OnLoad(k)
    \/ \E k \in AssetKeySet : ReResolve(k)
    \/ \E e \in ToggledEffects, v \in BOOLEAN : SetEffectEnabled(e, v)
    \/ Render

SpecReResolve == Init /\ [][NextReResolve]_vars

\* The customOrder arguments tried: ranks for the names of two effects.
RankedNames == {"SMAAEffect", "SSAOEffect"}
CustomRanks == {1, 3}
CustomOrders ==
    UNION {[names -> CustomRanks] : names \in SUBSET RankedNames}

\* _buildPostProcessingPipeline(customOrder) called on a Ready manager.
Rebuild(customOrder) ==
    /\ ManagerState = "Ready"
    /\ DisposeBudget
    /\ Commit(BuildPostProcessingPipeline(Mgr, customOrder))
    /\ lastFrame' = NoFrame
    /\ UNCHANGED <<pp, Params, finalEffect, assets, loadState, enabled, viewport, isWebGL2, errorLog, setupCount>>

\* The pipeline scenario with rebuilds under a customOrder argument.
NextOrder ==
    \/ \E k \in AssetKeySet : OnLoad(k)
    \/ \E e \in ToggledEffects, v \in BOOLEAN : SetEffectEnabled(e, v)
    \/ \E co \in CustomOrders : Rebuild(co)
    \/ Render

SpecOrder == Init /\ [][NextOrder]_vars

\* --------------------------------------------------------------------- C3
\* C3: the effects a rebuild hands to the composite pass are in ascending rank
\* of the ordering table, unlisted effects last, ties in registry order: they are
\* the registry sorted by rank (stable), restricted to the enabled entries.
C3_SortedByRank ==
    [][\A co \in CustomOrders :
          (Rebuild(co) /\ ~threw') =>
             LET sorted == SortEntries(effects, MergeOrder(DEFAULT_POSTPROCESSING_ORDER, co))
                 on == SelectSeq(sorted, LAMBDA e :
                          \E m \in 1..Len(effectEnabled) : effectEnabled[m] = <<e[1], TRUE>>)
             IN heap'[effectsPass'].effects = [i \in 1..Len(on) |-> on[i][2]]]_vars

\* --------------------------------------------------------------------- C4
\* C4: a render call made while the global flag is false does not call the
\* composer and draws the scene directly with the renderer.
C4_DisabledRenderBypasses ==
    [][(Render /\ ~enabled) => (~lastFrame'.composer /\ lastFrame'.direct)]_vars

\* --------------------------------------------------------------------- C6
\* C6: on a Ready manager, setEffectEnabled with an unregistered name adds no
\* entry to the EnabledMap and leaves the installed composite pass and the chain
\* as they are.
C6_InvalidNameIsNoOp ==
    [][\A e \in InvalidNames, v \in BOOLEAN :
          (ManagerState = "Ready" /\ SetEffectEnabled(e, v)) =>
             (effectEnabled' = effectEnabled /\ effectsPass' = effectsPass
                /\ composer' = composer /\ heap' = heap)]_vars

\* --------------------------------------------------------------------- C8
\* C8: setupPostProcessing does not run a second time, also when a success
\* callback is invoked again after the gate has fired.
C8_NoRefire == setupCount <= 1

\* --------------------------------------------------------------------- C9
\* C9: the manager starts in AwaitingAssets, becomes Ready in the step that
\* fills the last empty asset slot and in no other step, setup runs only from
\* AwaitingAssets, and a Ready manager stays Ready under every operation.
C9_StateMachine ==
    /\ ManagerState = "AwaitingAssets"
    /\ [][/\ ManagerState = "Ready" => ManagerState' = "Ready"
          /\ (ManagerState = "AwaitingAssets" /\ ManagerState' = "Ready")
                => (~AssetsAllPresent /\ AssetsAllPresent')
          /\ (~AssetsAllPresent /\ AssetsAllPresent') => ManagerState' = "Ready"
          /\ setupCount' # setupCount
                => (ManagerState = "AwaitingAssets" /\ setupCount' = 1)]_vars

C9_Witness ==
    /\ ManagerState = "Ready"
    /\ ~enabled
    /\ viewport # InitialViewport
    /\ \E m \in 1..Len(effectEnabled) : ~effectEnabled[m][2]
    /\ lastFrame.composer

\* -------------------------------------------------------------------- C10
\* The sizes the pipeline works with: the composer's buffers and every pass of
\* the chain.
PipelineSizes == {composer.bufferSize} \cup {heap[i].size : i \in ChainIds}

\* C10: resize does not throw; resizing again with the same dimensions changes
\* nothing; and the composer's buffers and, once Ready, every pass of the chain
\* have the drawing-buffer size of the dimensions last given, also when they
\* were given while AwaitingAssets.
C10_Resize ==
    /\ [](PipelineSizes = {DrawingBufferSize(viewport)} /\ rendererSize = viewport)
    /\ [][\A sz \in WindowSizes :
             Resize(sz.w, sz.h) =>
                (~threw' /\ ResizeResult(Mgr', sz.w, sz.h) = Mgr')]_vars

C10_Witness ==
    /\ ManagerState = "AwaitingAssets"
    /\ viewport # InitialViewport
    /\ composer.bufferSize = DrawingBufferSize(viewport)
    /\ Cardinality({k \in AssetKeySet : loadState[k] = "loaded"}) = 2

\* -------------------------------------------------------------------- C11
\* C11: in Ready, a rebuild that leaves the EnabledMap as it was (the installed
\* pass was built from that same map) installs a new pass instance with the same
\* ordered effect list, and the pass it replaces has been taken out of the chain
\* and disposed once.
C11_RebuildIdempotent ==
    [][\A e \in ToggledEffects, v \in BOOLEAN :
          (/\ ManagerState = "Ready"
           /\ ObjSet(effectEnabled, e, v) = effectEnabled
           /\ SetEffectEnabled(e, v)) =>
             LET M == BuildPostProcessingPipeline(Mgr, <<>>) IN
               /\ ~threw'
               /\ effectsPass' = M.effectsPass
               /\ heap'[effectsPass'].effects = heap[effectsPass].effects
               /\ effectsPass \in DOMAIN M.heap
               /\ M.effectsPass # effectsPass
               /\ effectsPass \notin {M.composer.passes[i] : i \in 1..Len(M.composer.passes)}
               /\ M.heap[effectsPass].disposed = 1
               /\ effectsPass' \in ChainIds']_vars

C11_Witness ==
    /\ ManagerState = "Ready"
    /\ \A m \in 1..Len(effectEnabled) : effectEnabled[m][2]
    /\ retired = {<<"effect", 1>>}
    /\ Len(heap[effectsPass].effects) = Len(EffectKeys)

\* -------------------------------------------------------------------- C12
\* C12: the chain holds at most one composite EffectPass, and _effectsPass is
\* non-null exactly when the chain holds one; it then names that pass, which has
\* not been disposed since it was installed.
C12_SinglePassReferenced ==
    /\ Cardinality(CompositePositions) <= 1
    /\ (effectsPass # NoPass) <=> (CompositePositions # {})
    /\ effectsPass # NoPass =>
          (effectsPass \in ChainIds /\ heap[effectsPass].disposed = 0)

\* -------------------------------------------------------------------- C13
\* C13: once an asset load has failed, every render and every resize completes
\* without an exception, and every render draws the scene: directly with the
\* renderer, or through a chain that holds the scene's RenderPass.
C13_FailureNotFatal ==
    [][errorLog # {} =>
          /\ Render =>
                /\ ~threw'
                /\ \/ lastFrame'.direct
                   \/ \E i \in 1..Len(lastFrame'.passes) :
                         heap[lastFrame'.passes[i]].kind = "render"
          /\ \A sz \in WindowSizes : Resize(sz.w, sz.h) => ~threw']_vars

\* ------------------------------------------ actions of the PostProcessing class
\* The manager's variables, which no method of PostProcessing touches.
ManagerVars ==
    <<assets, loadState, composer, helpers, effects, effectsPass, effectEnabled,
      enabled, heap, retired, rendererSize, viewport, isWebGL2, lastFrame, errorLog,
      threw, setupCount, Params, instances, finalEffect>>

\* The success callback of PostProcessing's loader.load for asset k.
PPOnLoad(k) ==
    /\ pp.loadState[k] = "pending"
    /\ LET P == [pp EXCEPT !.loadState[k] = "loaded", !.assets[k] = "texture",
                           !.lastFrame = NoFrame, !.threw = FALSE]
       IN pp' = IF AllLoaded(P.assets) THEN PPSetup(P, isWebGL2) ELSE P
    /\ UNCHANGED ManagerVars

\* PostProcessing.setEnabled(v)
PPSetEnabled(v) ==
    /\ pp' = [pp EXCEPT !.enabled = v, !.lastFrame = NoFrame, !.threw = FALSE]
    /\ UNCHANGED ManagerVars

\* PostProcessing.setEffectEnabled(effect, v)
PPSetEffectEnabled(effect, v) ==
    /\ pp' = [PPSetEffectEnabledBody(pp, effect, v) EXCEPT !.lastFrame = NoFrame,
                                                          !.threw = FALSE]
    /\ UNCHANGED ManagerVars

\* The switches of PostProcessing operated in the scenarios.
PPToggledEffects == {"smaa", "final"}

\* Both classes under their asset callbacks, their global switch and their
\* effect switches.
NextSwitches ==
    \/ \E k \in AssetKeySet : OnLoad(k)
    \/ \E v \in BOOLEAN : SetEnabled(v)
    \/ \E v \in BOOLEAN : SetEffectEnabled("smaa", v)
    \/ \E k \in AssetKeySet : PPOnLoad(k)
    \/ \E v \in BOOLEAN : PPSetEnabled(v)
    \/ \E e \in PPToggledEffects, v \in BOOLEAN : PPSetEffectEnabled(e, v)

SpecSwitches == Init /\ [][NextSwitches]_vars

\* -------------------------------------------------------------------- C14
\* C14: setEnabled(v) of either class sets the global flag to v and leaves the
\* per-effect flags, the registry, the installed composite pass, the passes and
\* the composer's chain as they were.
C14_SetEnabledFrame ==
    [][\A v \in BOOLEAN :
          /\ SetEnabled(v) =>
                /\ enabled' = v
                /\ effectEnabled' = effectEnabled /\ effects' = effects
                /\ effectsPass' = effectsPass /\ helpers' = helpers
                /\ composer' = composer /\ heap' = heap
          /\ PPSetEnabled(v) =>
                /\ pp'.enabled = v
                /\ pp'.effectEnabled = pp.effectEnabled
                /\ pp'.effectsPass = pp.effectsPass
                /\ pp'.composer = pp.composer /\ pp'.heap = pp.heap]_vars

C14_Witness ==
    /\ ~enabled /\ ~pp.enabled
    /\ ManagerState = "Ready" /\ pp.setups = 1
    /\ \E m \in 1..Len(effectEnabled) : ~effectEnabled[m][2]
    /\ \E k \in PPEffectKeySet : ~pp.effectEnabled[k]

\* -------------------------------------------------------------------- C15
\* C15: a frame rendered in Ready goes through the whole pipeline: the chain it
\* draws is the render pass, the normal pass, the depth pass when there is one,
\* and last the one composite pass, whose effects are the registry effects
\* enabled in the EnabledMap.  (lastFrame differs from NoFrame only in the state
\* a render call leaves.)
C15_RenderSeesWholePipeline ==
    (ManagerState = "Ready" /\ lastFrame # NoFrame) =>
        LET ps == lastFrame.passes
            prefix == IF helpers.depthDownPass # NoPass
                      THEN <<helpers.renderPass, helpers.normalPass, helpers.depthDownPass>>
                      ELSE <<helpers.renderPass, helpers.normalPass>>
        IN /\ lastFrame.composer
           /\ ps = prefix \o <<effectsPass>>
           /\ \A i \in 1..Len(prefix) : heap[ps[i]].kind # "effect"
           /\ heap[effectsPass].kind = "effect"
           /\ EffectSet(effectsPass) = EnabledRegistryEffects
           /\ Len(heap[effectsPass].effects) = Cardinality(EnabledRegistryEffects)

C15_Witness ==
    /\ ManagerState = "Ready"
    /\ lastFrame.composer
    /\ Len(lastFrame.passes) = 4
    /\ retired # {}
    /\ Len(heap[effectsPass].effects) < Len(EffectKeys)

\* -------------------------------------------------------------------- C16
\* C16: every composite pass ever created is the installed one (referenced by
\* _effectsPass, in the chain, not disposed) or has received exactly one
\* dispose() call.
C16_DisposedExactlyOnce ==
    /\ \A r \in retired : r[1] = "effect" => r[2] = 1
    /\ \A i \in DOMAIN heap :
          heap[i].kind = "effect" =>
             \/ i = effectsPass /\ i \in ChainIds /\ heap[i].disposed = 0
             \/ i \notin ChainIds /\ heap[i].disposed = 1

\* -------------------------------------------------------------------- C17
\* C17: in Ready, so after the rebuild of setup and after every later rebuild,
\* the chain is the render pass, the normal pass, the depth-downsampling pass
\* exactly when the renderer is WebGL2, and the composite pass, in that order,
\* and the helper positions hold the passes the _helpers fields name.
C17_ChainOrder ==
    ManagerState = "Ready" =>
        LET kinds == [i \in 1..Len(composer.passes) |-> heap[composer.passes[i]].kind]
        IN /\ kinds = IF isWebGL2 THEN <<"render", "normal", "depth", "effect">>
                                  ELSE <<"render", "normal", "effect">>
           /\ composer.passes[1] = helpers.renderPass
           /\ composer.passes[2] = helpers.normalPass
           /\ isWebGL2 => composer.passes[3] = helpers.depthDownPass
           /\ ~isWebGL2 => helpers.depthDownPass = NoPass
           /\ Last(composer.passes) = effectsPass

C17_Witness ==
    /\ ManagerState = "Ready"
    /\ ~isWebGL2
    /\ Len(composer.passes) = 3
    /\ <<"effect", 1>> \in retired
    /\ lastFrame = NoFrame

\* -------------------------------------------------------------------- C18
\* Passes of the chain marked terminal (renderToScreen).
TerminalPositions == {i \in 1..Len(composer.passes) : heap[composer.passes[i]].renderToScreen}

\* C18: at most one pass of the chain is terminal; in Ready exactly one is, and
\* it is the composite pass, at the end of the chain.
C18_OneTerminal ==
    /\ Cardinality(TerminalPositions) <= 1
    /\ ManagerState = "Ready" =>
          /\ TerminalPositions = {Len(composer.passes)}
          /\ Last(composer.passes) = effectsPass
          /\ heap[effectsPass].kind = "effect"

C18_Witness ==
    /\ ManagerState = "Ready"
    /\ isWebGL2
    /\ TerminalPositions = {4}
    /\ <<"effect", 1>> \in retired

\* -------------------------------------------------------------------- C19
\* C19, as stated: only a setEffectEnabled step changes an entry of the
\* EnabledMap.
C19_OnlySetEffectEnabledWrites ==
    [][effectEnabled' # effectEnabled => ToggleStep]_vars

\* C19, amended: an entry of the EnabledMap changes only in a setEffectEnabled
\* step, which writes the one entry it names, or in the step that runs the
\* one-time setup, which sets the entry of every registry key to true.
C19_WritersOfEnabledMap ==
    [][effectEnabled' # effectEnabled =>
          \/ \E e \in EffectKeySet, v \in BOOLEAN :
                SetEffectEnabled(e, v) /\ effectEnabled' = ObjSet(effectEnabled, e, v)
          \/ /\ setupCount' = setupCount + 1
             /\ ObjKeys(effectEnabled') = ObjKeys(effectEnabled)
             /\ \A k \in ObjKeys(effects') : ObjGet(effectEnabled', k, FALSE)
             /\ \A k \in ObjKeys(effectEnabled) \ ObjKeys(effects') :
                   ObjGet(effectEnabled', k, FALSE) = ObjGet(effectEnabled, k, FALSE)]_vars

C19_Witness ==
    /\ ManagerState = "Ready"
    /\ setupCount = 1
    /\ retired = {}
    /\ lastFrame = NoFrame
    /\ \A m \in 1..Len(effectEnabled) : effectEnabled[m][2]

\* -------------------------------------------------------------------- C20
\* The helper passes of the chain: the ids the _helpers fields name.
HelperIds == {helpers.renderPass, helpers.normalPass, helpers.depthDownPass} \ {NoPass}

\* C20: once setup has run, the registry holds the seven keys, each mapped to
\* the instance setup constructed for it; a setEffectEnabled step in Ready
\* leaves the registry's mapping and the helper passes (the same objects, in the
\* chain) as they were and replaces only the composite pass instance.
C20_ConstructedOnce ==
    /\ [](setupCount >= 1 =>
             /\ ObjKeys(effects) = EffectKeySet
             /\ Len(effects) = Len(EffectKeys)
             /\ \A k \in EffectKeySet :
                   ObjGet(effects, k, UndefinedEffect) =
                      [key |-> k, name |-> EffectName(k), gen |-> 1]
             /\ HelperIds \subseteq ChainIds)
    /\ [][(ManagerState = "Ready" /\ ToggleStep) =>
             /\ \A k \in EffectKeySet :
                   ObjGet(effects', k, UndefinedEffect) = ObjGet(effects, k, UndefinedEffect)
             /\ helpers' = helpers
             /\ \A h \in HelperIds : heap'[h].kind = heap[h].kind
             /\ ChainIds' \ {effectsPass'} = ChainIds \ {effectsPass}
             /\ effectsPass' # effectsPass]_vars

C20_Witness ==
    /\ ManagerState = "Ready"
    /\ <<"effect", 1>> \in retired
    /\ ~effectEnabled[1][2]
    /\ HelperIds \subseteq ChainIds
    /\ \A i \in 1..Len(effects) : effects[i][2].gen = 1

\* ------------------------------------------------------------- the debug panel
\* Number of panel-bound parameters that may differ from their initial value.
MaxPanelChanges == 1

\* The keys of Params that setupDebugPanel binds to a control.
PanelParams ==
    {"ssaoOpacity", "ssaoIntensity", "ssaoRadius", "threshold", "strength", "radius",
     "sepiaIntensity", "noise", "grainScale", "vignetteCenter", "vignetteRadius",
     "vignetteStrength", "vignettePower", "vignetteColor", "finalOpacity", "finalBlend"}

\* The bindings of setupDebugPanel that are given a change callback.
CallbackParams == PanelParams \ {"sepiaIntensity"}

\* The values a control may be set to: the initial value and values in the
\* control's range (for finalBlend the option set).
PanelValues(p) ==
    {InitialParams[p]} \cup
    CASE p = "ssaoOpacity" -> {500}
      [] p = "ssaoIntensity" -> {2000}
      [] p = "ssaoRadius" -> {200}
      [] p = "threshold" -> {600}
      [] p = "strength" -> {2000}
      [] p = "radius" -> {1000}
      [] p = "sepiaIntensity" -> {1000}
      [] p = "noise" -> {100}
      [] p = "grainScale" -> {8000}
      [] p = "vignetteCenter" -> {[x |-> 250, y |-> 750]}
      [] p = "vignetteRadius" -> {600}
      [] p = "vignetteStrength" -> {500}
      [] p = "vignettePower" -> {2000}
      [] p = "vignetteColor" -> {[r |-> 51000, g |-> 25500, b |-> 0]}
      [] p = "finalOpacity" -> {500}
      [] p = "finalBlend" -> {"NORMAL", "SCREEN", "ADD", "MULTIPLY", "OVERLAY", "SOFT_LIGHT"}

\* this._ssao, this._bloom, this._final: the registry entry, undefined before setup.
HasEffect(M, key) == key \in ObjKeys(M.effects)

\* The change callback of the binding of Params.<p>, called with ev.value = v.
OnChange(M, p, v) ==
    CASE p = "ssaoOpacity" ->
           IF HasEffect(M, "ssao") THEN [M EXCEPT !.instances.ssao.opacity = v] ELSE M
      [] p = "ssaoIntensity" ->
           IF HasEffect(M, "ssao") THEN [M EXCEPT !.instances.ssao.intensity = v] ELSE M
      [] p = "ssaoRadius" ->
           IF HasEffect(M, "ssao") THEN [M EXCEPT !.instances.ssao.radius = v] ELSE M
      [] p = "threshold" ->
           IF HasEffect(M, "bloom") THEN [M EXCEPT !.instances.bloom.threshold = v] ELSE M
      [] p = "strength" ->
           IF HasEffect(M, "bloom") THEN [M EXCEPT !.instances.bloom.intensity = v] ELSE M
      [] p = "radius" ->
           IF HasEffect(M, "bloom") THEN [M EXCEPT !.instances.bloom.resolutionScale = v]
           ELSE M
      [] p = "sepiaIntensity" -> M
      [] p = "noise" ->
           IF HasEffect(M, "final")
           THEN [M EXCEPT !.instances.final = SetNoise(@, v)] ELSE M
      [] p = "grainScale" ->
           IF HasEffect(M, "final")
           THEN [M EXCEPT !.instances.final = SetGrainScale(@, v)] ELSE M
      [] p = "vignetteCenter" ->
           IF HasEffect(M, "final")
           THEN [M EXCEPT !.instances.final = SetVignetteCenter(@, v.x, v.y)] ELSE M
      [] p = "vignetteRadius" ->
           IF HasEffect(M, "final")
           THEN [M EXCEPT !.instances.final = SetVignetteRadius(@, v)] ELSE M
      [] p = "vignetteStrength" ->
           IF HasEffect(M, "final")
           THEN [M EXCEPT !.instances.final = SetVignetteStrength(@, v)] ELSE M
      [] p = "vignettePower" ->
           IF HasEffect(M, "final")
           THEN [M EXCEPT !.instances.final = SetVignettePower(@, v)] ELSE M
      [] p = "vignetteColor" ->
           IF HasEffect(M, "final")
           THEN [M EXCEPT !.instances.final = SetVignetteColorHex(@, GetHex(v))] ELSE M
      [] p = "finalOpacity" ->
           IF HasEffect(M, "final") THEN [M EXCEPT !.instances.final.opacity = v] ELSE M
      [] p = "finalBlend" ->
           IF HasEffect(M, "final")
           THEN [M EXCEPT !.instances.final.blendFunction = BlendFunction[v]] ELSE M

\* Mutant of PanelChange: the callback also rebuilds the pipeline.
PanelChange_Rebuilds(p, v) ==
    LET P == [Params EXCEPT ![p] = v] IN
      /\ v # Params[p]
      /\ Cardinality({q \in PanelParams : P[q] # InitialParams[q]}) <= MaxPanelChanges
      /\ Params' = P
      /\ Commit(BuildPostProcessingPipeline(OnChange(Mgr, p, v), <<>>))
      /\ lastFrame' = NoFrame
      /\ UNCHANGED <<pp, finalEffect, assets, loadState, enabled, viewport, isWebGL2,
                     errorLog, setupCount>>

\* The user moves the control bound to Params.<p> to another value v: the
\* binding writes Params.<p>, then emits the change event.
PanelChange(p, v) ==
    LET P == [Params EXCEPT ![p] = v] IN
      /\ v # Params[p]
      /\ Cardinality({q \in PanelParams : P[q] # InitialParams[q]}) <= MaxPanelChanges
      /\ Params' = P
      /\ Commit(OnChange(Mgr, p, v))
      /\ lastFrame' = NoFrame
      /\ UNCHANGED <<pp, finalEffect, assets, loadState, enabled, viewport, isWebGL2,
                     errorLog, setupCount>>

\* The pipeline scenario with the panel's parameter controls.
NextPanel ==
    \/ \E k \in AssetKeySet : OnLoad(k)
    \/ \E p \in PanelParams : \E v \in PanelValues(p) : PanelChange(p, v)
    \/ \E v \in BOOLEAN : SetEffectEnabled("final", v)
    \/ Render

SpecPanel == Init /\ [][NextPanel]_vars

\* The step is a change of the control bound to Params.<p> (nothing else
\* writes Params).
PanelStep(p) == Params'[p] # Params[p]

\* The value of the live effect's property that the control of Params.<p> tunes.
LiveValue(p) ==
    CASE p = "ssaoOpacity" -> instances.ssao.opacity
      [] p = "ssaoIntensity" -> instances.ssao.intensity
      [] p = "ssaoRadius" -> instances.ssao.radius
      [] p = "threshold" -> instances.bloom.threshold
      [] p = "strength" -> instances.bloom.intensity
      [] p = "radius" -> instances.bloom.resolutionScale
      [] p = "sepiaIntensity" -> instances.sepia.intensity
      [] p = "noise" -> instances.final.uNoiseStrength
      [] p = "grainScale" -> instances.final.uGrainScale
      [] p = "vignetteCenter" -> instances.final.uVignetteCenter
      [] p = "vignetteRadius" -> instances.final.uVignetteRadius
      [] p = "vignetteStrength" -> instances.final.uVignetteStrength
      [] p = "vignettePower" -> instances.final.uVignettePower
      [] p = "vignetteColor" -> instances.final.uVignetteColor
      [] p = "finalOpacity" -> instances.final.opacity
      [] p = "finalBlend" -> instances.final.blendFunction

\* The live value lv shows the panel value v of Params.<p>: the blend function
\* the label names, the colour up to half an 8-bit step per channel, the same
\* number otherwise.
Shows(p, lv, v) ==
    CASE p = "finalBlend" -> lv = BlendFunction[v]
      [] p = "vignetteColor" ->
           /\ 2 * (lv.r - v.r) <= 1000 /\ 2 * (v.r - lv.r) <= 1000
           /\ 2 * (lv.g - v.g) <= 1000 /\ 2 * (v.g - lv.g) <= 1000
           /\ 2 * (lv.b - v.b) <= 1000 /\ 2 * (v.b - lv.b) <= 1000
      [] OTHER -> lv = v

\* -------------------------------------------------------------------- C21
\* C21: in Ready, a parameter change delivered through a panel change callback
\* is applied to the live effect at once (the effect's property shows the new
\* value), and the composite pass instance, the composer's chain, the passes
\* and the EnabledMap are what they were: nothing is rebuilt or disposed.
C21_ChangeAppliedWithoutRebuild ==
    [][\A p \in CallbackParams :
          (ManagerState = "Ready" /\ PanelStep(p)) =>
              /\ Shows(p, LiveValue(p)', Params'[p])
              /\ effectsPass' = effectsPass
              /\ composer' = composer
              /\ heap' = heap
              /\ retired' = retired
              /\ effects' = effects
              /\ effectEnabled' = effectEnabled
              /\ ~threw']_vars

\* A manager that was Ready with the initial parameters when the panel changed
\* the final blend mode: the live effect has the new blend function, and the
\* composite pass built at setup is still the last pass of the chain.
C21_Witness ==
    /\ ManagerState = "Ready"
    /\ Params.finalBlend = "MULTIPLY"
    /\ instances.final.blendFunction = BlendFunction.MULTIPLY
    /\ retired = {}
    /\ effectsPass \in ChainIds
    /\ Len(heap[effectsPass].effects) = Len(EffectKeys)

\* -------------------------------------------------------------------- C22
\* C22: every parameter setupDebugPanel registers has a change callback: in
\* Ready, after the panel changes any registered parameter, the live effect's
\* corresponding property shows the new value.
C22_EveryControlReachesEffect ==
    [][\A p \in PanelParams :
          (ManagerState = "Ready" /\ PanelStep(p)) =>
              Shows(p, LiveValue(p)', Params'[p])]_vars

\* -------------------------------------------------------------------- C27
\* C27: parameter changes made on the panel while AwaitingAssets are not lost:
\* at the step that reaches Ready, every panel-bound parameter of every live
\* effect shows its value in Params.
C27_ReadyMatchesParams ==
    [][(ManagerState = "AwaitingAssets" /\ ManagerState' = "Ready") =>
          \A p \in PanelParams : Shows(p, LiveValue(p)', Params'[p])]_vars

\* ------------------------------------------ the PostProcessing class on its own
\* The error callback of PostProcessing's loader.load for asset k: it logs.
PPOnError(k) ==
    /\ pp.loadState[k] = "pending"
    /\ pp' = [pp EXCEPT !.loadState[k] = "failed", !.lastFrame = NoFrame, !.threw = FALSE]
    /\ UNCHANGED ManagerVars

\* PostProcessing.render()
PPRender ==
    /\ pp' = [pp EXCEPT !.lastFrame = PPRenderFrame(pp), !.threw = FALSE]
    /\ UNCHANGED ManagerVars

\* PostProcessing under its asset callbacks, its switches and the frame loop.
NextPP ==
    \/ \E k \in AssetKeySet : PPOnLoad(k)
    \/ \E k \in AssetKeySet : PPOnError(k)
    \/ \E v \in BOOLEAN : PPSetEnabled(v)
    \/ \E e \in PPEffectKeySet, v \in BOOLEAN : PPSetEffectEnabled(e, v)
    \/ PPRender

SpecPP == Init /\ [][NextPP]_vars

\* -------------------------------------------------------------------- C23
\* C23: PostProcessing.render() with enabled = false draws the scene directly
\* with the renderer and does not call the composer; with enabled = true it
\* calls the composer and does not draw directly.  setEnabled leaves the
\* per-effect flags as they were, whatever the direction of the switch.
C23_RenderFollowsSwitch ==
    [][/\ PPRender =>
            /\ ~pp.enabled => (pp'.lastFrame.direct /\ ~pp'.lastFrame.composer)
            /\ pp.enabled => (pp'.lastFrame.composer /\ ~pp'.lastFrame.direct)
       /\ \A v \in BOOLEAN :
            PPSetEnabled(v) => pp'.effectEnabled = pp.effectEnabled]_vars

\* A frame drawn directly after setup, the global switch off and the smaa flag,
\* switched off earlier, still off.
C23_Witness ==
    /\ pp.setups = 1
    /\ ~pp.enabled
    /\ ~pp.effectEnabled["smaa"]
    /\ pp.effectEnabled["final"]
    /\ pp.lastFrame.direct
    /\ ~pp.lastFrame.composer

EarlyToggle(effect, v) ==
    /\ ManagerState = "AwaitingAssets"
    /\ SetEffectEnabled(effect, v)

\* The pipeline scenario with a panel whose switches are used only while the
\* assets load.
NextEarly ==
    \/ \E k \in AssetKeySet : OnLoad(k)
    \/ \E e \in EffectKeySet, v \in BOOLEAN : EarlyToggle(e, v)
    \/ Render

SpecEarly == Init /\ [][NextEarly]_vars

\* -------------------------------------------------------------------- C24
\* C24: at the step that completes setup, whatever setEffectEnabled calls were
\* made while AwaitingAssets, every effect of the registry is marked enabled and
\* the composite pass installed (the first one to enter the chain) holds all
\* seven effects of the registry: the earlier switches are discarded.
C24_SetupEnablesAll ==
    [][(ManagerState = "AwaitingAssets" /\ ManagerState' = "Ready") =>
          /\ ObjKeys(effects') = EffectKeySet
          /\ \A k \in EffectKeySet : ObjGet(effectEnabled', k, FALSE)
          /\ CompositePositions = {}
          /\ ~threw'
          /\ composer'.passes # <<>>
          /\ Last(composer'.passes) = effectsPass'
          /\ Len(heap'[effectsPass'].effects) = Len(EffectKeys)
          /\ {heap'[effectsPass'].effects[i] : i \in 1..Len(EffectKeys)}
               = {effects'[i][2] : i \in 1..Len(effects')}]_vars

\* A Ready manager all of whose seven effects are enabled and in the installed
\* pass, although every switch had been turned off while the assets loaded: the
\* empty composite pass that last early call constructed has been disposed.
C24_Witness ==
    /\ ManagerState = "Ready"
    /\ \A k \in EffectKeySet : ObjGet(effectEnabled, k, FALSE)
    /\ Last(composer.passes) = effectsPass
    /\ Len(heap[effectsPass].effects) = Len(EffectKeys)
    /\ \E r \in retired : r[1] = "effect"

NextLoads ==
    \/ \E k \in AssetKeySet : OnLoad(k)
    \/ \E v \in BOOLEAN : SetEnabled(v)
    \/ Render
    \/ \E sz \in WindowSizes : Resize(sz.w, sz.h)

\* A pending request completes: the step of a success callback, seen on the
\* loader's state alone (no other step changes loadState).
Loaded == \E k \in AssetKeySet :
             /\ loadState[k] = "pending"
             /\ loadState' = [loadState EXCEPT ![k] = "loaded"]

\* The loader calls the success callback of every request it has completed:
\* a pending callback is not postponed for ever by frames, resizes or switches.
SpecLoads == Init /\ [][NextLoads]_vars /\ WF_loadState(Loaded)

\* The chain setup installs: render, normal, the depth pass on WebGL 2, and the
\* composite pass, in this order.
ChainInstalled ==
    /\ ManagerState = "Ready"
    /\ effectsPass # NoPass
    /\ composer.passes =
         IF helpers.depthDownPass # NoPass
         THEN <<helpers.renderPass, helpers.normalPass, helpers.depthDownPass, effectsPass>>
         ELSE <<helpers.renderPass, helpers.normalPass, effectsPass>>
    /\ heap[helpers.renderPass].kind = "render"
    /\ heap[helpers.normalPass].kind = "normal"
    /\ heap[effectsPass].kind = "effect"
    /\ (helpers.depthDownPass # NoPass) = isWebGL2

\* -------------------------------------------------------------------- C26
\* C26: when the three loads succeed and their callbacks are scheduled fairly,
\* the manager eventually is Ready with the chain render, normal, (depth),
\* composite installed, whatever render, resize and setEnabled calls are
\* interleaved with the loads.
C26_EventuallyReady == <>ChainInstalled

\* The chain is installed on a manager that was switched off and resized to
\* another window size along the way.
C26_Witness ==
    /\ ChainInstalled
    /\ ~enabled
    /\ viewport # InitialViewport
    /\ heap[effectsPass].size = DrawingBufferSize(viewport)

\* ------------------------------------------------- the FinalEffect class alone
\* The numbers a caller passes for noiseStrength, noise and grainScale.
OptionValues == {0, 38}

\* The numbers assigned through the setters.
SetterValues == {100, 250}

\* The option objects tried: grain, and any subset of noiseStrength, noise and
\* grainScale, each with any of the option values.
FinalOptions ==
    UNION {{[k \in D \cup {"grain"} |-> IF k = "grain" THEN "texture" ELSE f[k]] :
               f \in [D -> OptionValues]} :
           D \in SUBSET {"noiseStrength", "noise", "grainScale"}}

\* A FinalEffect constructed with any of the option objects, next to the page
\* as constructed.
InitFinal ==
    /\ InitProgram
    /\ \E opts \in FinalOptions : finalEffect = FinalEffect(opts)

\* Everything but the FinalEffect object under test.
PageVars ==
    <<assets, loadState, composer, helpers, effects, effectsPass, effectEnabled,
      enabled, heap, retired, rendererSize, viewport, isWebGL2, lastFrame, errorLog,
      threw, setupCount, pp, Params, instances>>

\* finalEffect.noise = v
FinalSetNoise(v) ==
    /\ finalEffect' = SetNoise(finalEffect, v)
    /\ UNCHANGED PageVars

\* finalEffect.grainScale = v
FinalSetGrainScale(v) ==
    /\ finalEffect' = SetGrainScale(finalEffect, v)
    /\ UNCHANGED PageVars

\* finalEffect.vignetteRadius = v
FinalSetVignetteRadius(v) ==
    /\ finalEffect' = SetVignetteRadius(finalEffect, v)
    /\ UNCHANGED PageVars

\* finalEffect.vignetteStrength = v
FinalSetVignetteStrength(v) ==
    /\ finalEffect' = SetVignetteStrength(finalEffect, v)
    /\ UNCHANGED PageVars

\* finalEffect.vignettePower = v
FinalSetVignettePower(v) ==
    /\ finalEffect' = SetVignettePower(finalEffect, v)
    /\ UNCHANGED PageVars

\* Any sequence of assignments through the scalar setters.
NextFinal ==
    \/ \E v \in SetterValues : FinalSetNoise(v)
    \/ \E v \in SetterValues : FinalSetGrainScale(v)
    \/ \E v \in SetterValues : FinalSetVignetteRadius(v)
    \/ \E v \in SetterValues : FinalSetVignetteStrength(v)
    \/ \E v \in SetterValues : FinalSetVignettePower(v)

SpecFinal == InitFinal /\ [][NextFinal]_vars

\* -------------------------------------------------------------------- C29
\* C29: FinalEffect keeps its two noise uniforms in sync: uNoise and
\* uNoiseStrength hold the same value right after construction, for every
\* combination of the noiseStrength and noise options (both, one or none
\* given), and after any sequence of assignments to the noise setter.
C29_NoiseUniformsInSync == finalEffect.uNoise = finalEffect.uNoiseStrength

\* An effect whose noise has been assigned through the setter (250 is no
\* option value and no default) after other setters were used as well.
C29_Witness ==
    /\ finalEffect.uNoise = 250
    /\ finalEffect.uNoiseStrength = 250
    /\ finalEffect.uGrainScale \in OptionValues
    /\ finalEffect.uVignettePower = 100

====
